---- MODULE Spec2Model ----
(***************************************************************************)
(* Anemo inference pipeline: region detection and cropping (detector.py),  *)
(* normalisation (preprocess.py), classification (classifier.py),          *)
(* saliency overlay (explain.py) and their orchestration (pipeline.py).    *)
(*                                                                         *)
(* One request is followed through run_pipeline, one action per stage.     *)
(* The two pretrained models, the image codec and the file system are the  *)
(* environment: what they return is drawn from small sets.                 *)
(*                                                                         *)
(* Units.  Box coordinates reported by the localisation model are floats;  *)
(* they are held in half pixels (3 stands for 1.5 px).  Probabilities are  *)
(* held in units of 1/One.  File sizes are in bytes.                       *)
(***************************************************************************)
EXTENDS Integers, Sequences, FiniteSets, TLC

VARIABLES
    pc,            \* position of run_pipeline
    image_path,    \* run_pipeline's argument: the file name, as tokens
    explain,       \* run_pipeline's argument, then its coerced value
    dc,            \* locals of detect_and_crop as it returned (None otherwise)
    crop_rgb,      \* run_pipeline's crop_rgb
    input_tensor,  \* run_pipeline's input_tensor
    prediction,    \* the classifier's raw probability, label and confidence
    result,        \* run_pipeline's result record
    gradcam,       \* the last call of generate_gradcam: arguments seen, return
    files,         \* the results directory: set of [path, content, size]
    written,       \* paths this request passed to a successful cv2.imwrite
    calls,         \* stages invoked so far, in order
    error,         \* the exception that ended the request
    ret            \* the last direct call of a stage function: [fn, arg, value]

vars == <<pc, image_path, explain, dc, crop_rgb, input_tensor, prediction, result,
          gradcam, files, written, calls, error, ret>>

\* Python's None.  Every value that may be None is a record, so that the two
\* can be compared.
None == [k |-> "None"]

Max(a, b) == IF a >= b THEN a ELSE b
Min(a, b) == IF a <= b THEN a ELSE b

(***************************************************************************)
(* Bounds of the model.                                                    *)
(***************************************************************************)
MaxDets == 2       \* detections the localisation model reports for one image

(***************************************************************************)
(* Program constants.                                                      *)
(***************************************************************************)
MAX_IMAGE_SIZE == 100 * 1024 * 1024
MAX_HEATMAP_SIZE == 50 * 1024 * 1024
ALLOWED_EXTENSIONS == {".jpg", ".jpeg", ".png", ".webp"}
TARGET_CLASSES == {"palpebral", "forniceal_palpebral", "eye"}
max_dim == 2048
CropSide == 224

(***************************************************************************)
(* File names.  A name is a sequence of tokens, the last one its suffix.   *)
(***************************************************************************)
FileNames ==
    { <<"eye", ".jpg">>,
      <<"a", "\\", "b", ".PNG">>,
      <<"scan", ".gif">>,
      <<"my", "..", "eye", ".jpg">> }

Suffix(name) == name[Len(name)]

\* str.lower() on the suffixes that occur
Lower(s) ==
    CASE s = ".PNG" -> ".png"
      [] s = ".JPG" -> ".jpg"
      [] OTHER -> s

\* ".." in str(path)
HasDotDot(name) == \E i \in DOMAIN name : name[i] = ".."

\* str.replace("/", "_").replace("\\", "_") on the name part
ReplaceSeparators(name) ==
    [i \in DOMAIN name |-> IF name[i] \in {"/", "\\"} THEN "_" ELSE name[i]]

\* RESULTS_DIR / f"{prefix}{name}"
ResultsPath(prefix, name) == [dir |-> "results", name |-> <<prefix>> \o name]

(***************************************************************************)
(* The file system.                                                        *)
(***************************************************************************)
\* what the input path is found to be when the code looks at it
FileStates ==
    [exists : BOOLEAN, is_file : BOOLEAN, stat_ok : BOOLEAN,
     size : {1024, MAX_IMAGE_SIZE, MAX_IMAGE_SIZE + 1},
     readable : BOOLEAN]

\* cv2.imwrite(path, img): the file at path is replaced
WriteFile(fs, path, content, size) ==
    {f \in fs : f.path # path} \cup
    {[path |-> path, content |-> content, size |-> size]}

\* Path.unlink(missing_ok=True)
Unlink(fs, path) == {f \in fs : f.path # path}

\* Path.exists()
Exists(fs, path) == \E f \in fs : f.path = path

SizeOf(fs, path) == (CHOOSE f \in fs : f.path = path).size

(***************************************************************************)
(* detect_and_crop: downscaling of oversized images.                       *)
(***************************************************************************)
\* (width, height) of the images cv2.imread returns
ImageDims ==
    { <<640, 480>>, <<2048, 2048>>, <<2048, 2049>>, <<6000, 4000>>,
      <<3136, 2000>>, <<1000, 4097>>, <<2049, 1>> }

\* int(d * (max_dim / m)) in double arithmetic.  The product is within a few
\* ulps of d * max_dim / m, so it truncates to the exact floor, except that
\* an exact integer quotient q may be computed just below q (3136 * (2048 /
\* 3136) is 2047.9999999999998) and then truncates to q - 1.
ScaledInt(d, m) ==
    LET q == (d * max_dim) \div m
    IN  IF (d * max_dim) % m = 0 THEN {q, q - 1} ELSE {q}

NoResizeMut(w, h) == {<<w, h>>}

\* detector.py 74-79: the sizes the image can have after the block
Downscale(w, h) ==
    IF w > max_dim \/ h > max_dim
    THEN {<<nw, nh>> : nw \in ScaledInt(w, Max(w, h)),
                       nh \in ScaledInt(h, Max(w, h))}
    ELSE {<<w, h>>}

(***************************************************************************)
(* detect_and_crop: selection of the detection box.                        *)
(***************************************************************************)
ClassNames == {"palpebral", "sclera"}
Scores == {30, 90}     \* confidence of a detection, percent (conf=0.25 cut)

\* xyxy of the reported boxes, in half pixels
BoxesXYXY ==
    { <<0, 0, 6, 3>>,            \* 3 x 1.5 px
      <<2, 0, 4, 7>>,            \* 1 x 3.5 px
      <<2, 2, 3, 6>>,            \* 0.5 x 2 px
      <<-3, -3, 6, 6>>,          \* partly left of and above the image
      <<12000, 0, 12002, 4>> }   \* right of every image

Detection == [cls : ClassNames, conf : Scores, xyxy : BoxesXYXY]

DetectionLists == UNION {[1..n -> Detection] : n \in 0..MaxDets}

\* int(x) of a float: truncation towards zero
ToInt(v) == IF v >= 0 THEN v \div 2 ELSE -((-v) \div 2)

\* map(int, box.xyxy[0].tolist())
IntBox(d) == <<ToInt(d.xyxy[1]), ToInt(d.xyxy[2]),
               ToInt(d.xyxy[3]), ToInt(d.xyxy[4])>>

Area(b) == (b[3] - b[1]) * (b[4] - b[2])

LastLargestMut(dets) ==
    LET RECURSIVE Loop(_, _, _)
        Loop(i, best_box, best_area) ==
            IF i > Len(dets) THEN best_box
            ELSE IF dets[i].cls \in TARGET_CLASSES
                    /\ Area(IntBox(dets[i])) >= best_area
                 THEN Loop(i + 1, [k |-> "box", xyxy |-> IntBox(dets[i])],
                           Area(IntBox(dets[i])))
                 ELSE Loop(i + 1, best_box, best_area)
    IN  Loop(1, None, 0)

\* detector.py 86-103: best_box after the loop over the boxes
SelectBest(dets) ==
    LET RECURSIVE Loop(_, _, _)
        Loop(i, best_box, best_area) ==
            IF i > Len(dets) THEN best_box
            ELSE IF dets[i].cls \in TARGET_CLASSES
                    /\ Area(IntBox(dets[i])) > best_area
                 THEN Loop(i + 1, [k |-> "box", xyxy |-> IntBox(dets[i])],
                           Area(IntBox(dets[i])))
                 ELSE Loop(i + 1, best_box, best_area)
    IN  Loop(1, None, 0)

\* detector.py 116-117
Clamp(b, w, h) == <<Max(0, b[1]), Max(0, b[2]), Min(w, b[3]), Min(h, b[4])>>

\* length of a[lo:hi] for a of length n (lo >= 0; a negative hi counts from
\* the end, as numpy slices do)
SliceLen(lo, hi, n) ==
    LET stop == IF hi < 0 THEN Max(0, hi + n) ELSE Min(hi, n)
    IN  Max(0, stop - Min(lo, n))

\* a CroppedRegion: what cv2.resize(.., (224, 224)) + cvtColor return
Region(source) ==
    [k |-> "ndarray", shape |-> <<CropSide, CropSide, 3>>, dtype |-> "uint8",
     vmax |-> 255, content |-> source]


FallbackUnwrittenMut(name, w, h, dets, fsys) ==
    LET best_box   == SelectBest(dets)
        boxed_path == ResultsPath("boxed_", ReplaceSeparators(name))
        b          == Clamp(best_box.xyxy, w, h)
        crop_w     == SliceLen(b[1], b[3], w)
        crop_h     == SliceLen(b[2], b[4], h)
    IN  IF best_box # None
        THEN [best_box   |-> best_box,
              boxed_path |-> boxed_path,
              files      |-> WriteFile(fsys, boxed_path, "marked", 1024),
              wrote      |-> {boxed_path},
              crop_rgb   |-> IF crop_w * crop_h # 0 THEN Region("box") ELSE None]
        ELSE [best_box   |-> best_box,
              boxed_path |-> boxed_path,
              files      |-> fsys,
              wrote      |-> {},
              crop_rgb   |-> Region("full")]

\* detector.py 85-142: from the model's detections to the returned crop.
\* fsys is the results directory as found; w, h the size of image_bgr.
SelectAndCrop(name, w, h, dets, fsys) ==
    LET best_box   == SelectBest(dets)
        boxed_path == ResultsPath("boxed_", ReplaceSeparators(name))
        b          == Clamp(best_box.xyxy, w, h)
        crop_w     == SliceLen(b[1], b[3], w)
        crop_h     == SliceLen(b[2], b[4], h)
    IN  IF best_box # None
        THEN [best_box   |-> best_box,
              boxed_path |-> boxed_path,
              files      |-> WriteFile(fsys, boxed_path, "marked", 1024),
              wrote      |-> {boxed_path},
              crop_rgb   |-> IF crop_w * crop_h # 0 THEN Region("box") ELSE None]
        ELSE [best_box   |-> best_box,
              boxed_path |-> boxed_path,
              files      |-> WriteFile(fsys, boxed_path, "unmarked", 1024),
              wrote      |-> {boxed_path},
              crop_rgb   |-> Region("full")]

(***************************************************************************)
(* preprocess_image.                                                       *)
(***************************************************************************)
\* smallest and largest pixel of the enhanced image, 0..255
PixelRanges == { <<0, 255>>, <<40, 40>> }

TensorShape == <<1, CropSide, CropSide, 3>>

\* np.issubdtype(dtype, np.integer)
IntegerDtypes == {"uint8", "int32"}

\* preprocess.py 8-57.  cv_ok: the OpenCV calls of the try block succeed;
\* rng: the pixel range they leave.  Tensor values are in units of 1/255.
preprocess_image(img_rgb, cv_ok, rng) ==
    IF img_rgb = None THEN None
    ELSE IF img_rgb.k # "ndarray" THEN None
    ELSE IF img_rgb.shape # <<CropSide, CropSide, 3>> THEN None
    ELSE IF img_rgb.dtype \notin IntegerDtypes \/ img_rgb.vmax > 255 THEN None
    ELSE IF ~cv_ok THEN None
    ELSE [k |-> "ndarray", shape |-> TensorShape, dtype |-> "float32",
          vmin |-> rng[1], vmax |-> rng[2]]

(***************************************************************************)
(* predict_anemia.                                                         *)
(***************************************************************************)
One == 100000          \* probability 1.0
Half == One \div 2     \* the literal 0.5

\* probabilities the classifier model returns
PValues == {0, 1, 49999, 50000, 50001, 82000, 82005, 99999, 100000}

\* model.predict(input_tensor)[0][0].  Keras checks the input against the
\* model's input shape (None, 224, 224, 3) and raises on a mismatch; it does
\* not look at the values.  Whatever the tensor, the call may fail.
KerasPredict(tensor) ==
    {[k |-> "raise"]} \cup
    (IF tensor # None /\ tensor.k = "ndarray" /\ tensor.shape = TensorShape
     THEN {[k |-> "p", p |-> v] : v \in PValues}
     ELSE {})

PredictLeqMut(prob) ==
    IF prob <= Half
    THEN [label |-> "NON-ANEMIC", confidence |-> One - prob]
    ELSE [label |-> "ANEMIC", confidence |-> prob]

\* classifier.py 26-29
predict_anemia(prob) ==
    IF prob < Half
    THEN [label |-> "NON-ANEMIC", confidence |-> One - prob]
    ELSE [label |-> "ANEMIC", confidence |-> prob]

\* round(confidence * 100, 2), in hundredths of a percent.  On a decimal tie
\* the binary value of the float decides.
Round2(c) ==
    IF c % 10 = 5 THEN {c \div 10, c \div 10 + 1}
    ELSE IF c % 10 < 5 THEN {c \div 10}
    ELSE {c \div 10 + 1}

(***************************************************************************)
(* generate_gradcam.                                                       *)
(***************************************************************************)
\* sizes the written overlay can have: at most twice its raw pixel data
OverlaySizes(shape) ==
    {sz \in {1024, MAX_HEATMAP_SIZE, MAX_HEATMAP_SIZE + 1} :
        sz <= 2 * 3 * shape[1] * shape[2]}

\* what the calls inside generate_gradcam do:
\*   grads: "raise" (get_layer or the gradient tape raises), "none"
\*          (tape.gradient returns None), "ok"
\*   pct:   the 40th and 99th percentile of the gradient map
\*   write_ok, size: whether cv2.imwrite writes the file, and its size
GradcamEnv ==
    LET E(g, pct, w, sz) == [grads |-> g, pct |-> pct, write_ok |-> w, size |-> sz]
    IN  {E("raise", <<0, 0>>, FALSE, 1024), E("none", <<0, 0>>, FALSE, 1024),
         E("ok", <<0, 0>>, FALSE, 1024), E("ok", <<3, 3>>, FALSE, 1024),
         E("ok", <<0, 7>>, FALSE, 1024)}
        \cup {E("ok", <<0, 7>>, TRUE, sz) :
                sz \in {1024, MAX_HEATMAP_SIZE, MAX_HEATMAP_SIZE + 1}}

\* the outcomes possible for a call whose overlay is built on original_rgb
GradcamEnvFor(original_rgb) ==
    {e \in GradcamEnv :
        \/ original_rgb = None
        \/ original_rgb.k # "ndarray"
        \/ Len(original_rgb.shape) < 3
        \/ e.size \in OverlaySizes(original_rgb.shape)}

\* a return of generate_gradcam: the value, the results directory it leaves,
\* whether cv2.imwrite wrote the file, and the message it logged
GradcamReturn(value, fsys, wrote, log) ==
    [k |-> "call", ret |-> value, files |-> fsys, wrote |-> wrote, log |-> log,
     raised |-> FALSE]

KeepOversizedMut(output_path, env, fsys) ==
    LET after == IF env.write_ok
                 THEN WriteFile(fsys, output_path, "heatmap", env.size)
                 ELSE fsys
    IN  IF ~Exists(after, output_path)
        THEN GradcamReturn(None, after, env.write_ok, "Failed to write heatmap file")
        ELSE IF SizeOf(after, output_path) > MAX_HEATMAP_SIZE
        THEN GradcamReturn(None, after, env.write_ok, "exceeds size limit")
        ELSE GradcamReturn(output_path, after, env.write_ok, "saved")

\* explain.py 139-153: after the overlay is built
SaveOverlay(output_path, env, fsys) ==
    LET after == IF env.write_ok
                 THEN WriteFile(fsys, output_path, "heatmap", env.size)
                 ELSE fsys
    IN  IF ~Exists(after, output_path)
        THEN GradcamReturn(None, after, env.write_ok, "Failed to write heatmap file")
        ELSE IF SizeOf(after, output_path) > MAX_HEATMAP_SIZE
        THEN GradcamReturn(None, Unlink(after, output_path), env.write_ok,
                           "exceeds size limit")
        ELSE GradcamReturn(output_path, after, env.write_ok, "saved")

\* explain.py 26-158.  The except clause turns every exception of the body
\* into a return of None.
generate_gradcam(tensor, original_rgb, output_path, env, fsys) ==
    LET Fail(log) == GradcamReturn(None, fsys, FALSE, log)
    IN  IF tensor = None \/ tensor.k # "ndarray" THEN Fail("Invalid input_tensor type")
        ELSE IF original_rgb = None \/ original_rgb.k # "ndarray"
        THEN Fail("Invalid original_rgb type")
        ELSE IF tensor.shape # TensorShape THEN Fail("Invalid input_tensor shape")
        ELSE IF Len(original_rgb.shape) < 3      \* shape[2] raises IndexError
        THEN Fail("Grad-CAM generation error")
        ELSE IF original_rgb.shape[3] # 3 THEN Fail("Invalid RGB channels")
        ELSE IF output_path = None THEN Fail("Output path is required")
        ELSE IF Lower(Suffix(output_path.name)) \notin ALLOWED_EXTENSIONS
        THEN Fail("Invalid output extension")
        ELSE IF HasDotDot(output_path.name) THEN Fail("Directory traversal attempt")
        ELSE IF env.grads = "raise" THEN Fail("Grad-CAM generation error")
        ELSE IF env.grads = "none" THEN Fail("Could not compute input gradients")
        ELSE IF env.pct[2] <= env.pct[1] THEN Fail("heatmap collapsed")
        ELSE SaveOverlay(output_path, env, fsys)

(***************************************************************************)
(* run_pipeline.                                                           *)
(***************************************************************************)
\* values a caller passes as explain: True, False, 1, ""
ExplainArgs ==
    { [type |-> "bool", truthy |-> TRUE], [type |-> "bool", truthy |-> FALSE],
      [type |-> "int", truthy |-> TRUE], [type |-> "str", truthy |-> FALSE] }

\* bool(explain)
ToBool(v) == [type |-> "bool", truthy |-> v.truthy]

NoCall == [k |-> "None"]

Init ==
    /\ pc = "start"
    /\ image_path \in FileNames
    /\ explain \in ExplainArgs
    /\ dc = None
    /\ crop_rgb = None
    /\ input_tensor = None
    /\ prediction = None
    /\ result = None
    /\ gradcam = NoCall
    /\ files = {}
    /\ written = {}
    /\ calls = <<>>
    /\ error = None
    /\ ret = NoCall

\* raise type(msg), which nothing in run_pipeline catches
Raise(type, msg) ==
    /\ pc' = "failed"
    /\ error' = [type |-> type, msg |-> msg]

\* detector.py 34-70: the exception the checks before inference raise, if any
ValidateImagePath(name, fs) ==
    IF HasDotDot(name) THEN "Invalid image path"
    ELSE IF ~fs.exists \/ ~fs.is_file THEN "Could not access image file"
    ELSE IF Lower(Suffix(name)) \notin ALLOWED_EXTENSIONS THEN "Unsupported file type"
    ELSE IF ~fs.stat_ok THEN "Cannot access image file"
    ELSE IF fs.size > MAX_IMAGE_SIZE THEN "Image file too large"
    ELSE IF ~fs.readable THEN "Could not read image - file may be corrupted"
    ELSE "ok"

\* pipeline.py 17-30 with detector.py 30-142: the path check, the coercion of
\* explain and the call of detect_and_crop
Detect ==
    /\ pc = "start"
    /\ UNCHANGED <<image_path, input_tensor, prediction, result, gradcam, ret>>
    /\ \E fs \in FileStates :
        IF ~fs.exists
        THEN /\ Raise("ValueError", "Image file not found")
             /\ UNCHANGED <<explain, dc, crop_rgb, files, written, calls>>
        ELSE
          /\ explain' = ToBool(explain)
          /\ calls' = Append(calls, "detector")
          /\ IF ValidateImagePath(image_path, fs) # "ok"
             THEN /\ Raise("ValueError", ValidateImagePath(image_path, fs))
                  /\ UNCHANGED <<dc, crop_rgb, files, written>>
             ELSE \E d0 \in ImageDims : \E d \in Downscale(d0[1], d0[2]) :
                IF d[1] <= 0 \/ d[2] <= 0
                THEN \* cv2.resize rejects an empty target size
                     /\ Raise("cv2.error", "resize")
                     /\ UNCHANGED <<dc, crop_rgb, files, written>>
                ELSE \E dets \in DetectionLists :
                     LET out == SelectAndCrop(image_path, d[1], d[2], dets, files)
                     IN  /\ dc' = [k |-> "frame", w0 |-> d0[1], h0 |-> d0[2],
                                   w |-> d[1], h |-> d[2], dets |-> dets,
                                   best_box |-> out.best_box,
                                   boxed_path |-> out.boxed_path]
                         /\ crop_rgb' = out.crop_rgb
                         /\ files' = out.files
                         /\ written' = written \cup out.wrote
                         /\ pc' = "detected"
                         /\ error' = error

NeverNoneMut(v) == FALSE

\* pipeline.py 33 and 43: "if crop_rgb is None", "if input_tensor is None"
IsNone(v) == v = None

\* pipeline.py 32-40: the check of the crop and the call of preprocess_image.
\* detect_and_crop's locals are gone once run_pipeline goes on.
Normalize ==
    /\ pc = "detected"
    /\ dc' = None
    /\ UNCHANGED <<image_path, explain, crop_rgb, prediction, result, gradcam,
                   files, written, ret>>
    /\ IF IsNone(crop_rgb)
       THEN /\ Raise("ValueError", "Failed to extract image data for classification")
            /\ UNCHANGED <<input_tensor, calls>>
       ELSE /\ calls' = Append(calls, "normalizer")
            /\ \E cv_ok \in BOOLEAN, rng \in PixelRanges :
                 input_tensor' = preprocess_image(crop_rgb, cv_ok, rng)
            /\ pc' = "normalized"
            /\ error' = error

\* pipeline.py 50-55
BuildResult(name, pred, pct) ==
    [label |-> pred.label, confidence |-> pct,
     boxed_image_path |-> ResultsPath("boxed_", name), note |-> None]

\* pipeline.py 42-55: the check of the tensor, the call of predict_anemia and
\* the result record
Classify ==
    /\ pc = "normalized"
    /\ UNCHANGED <<image_path, explain, dc, crop_rgb, input_tensor, gradcam,
                   files, written, ret>>
    /\ IF IsNone(input_tensor)
       THEN /\ Raise("ValueError", "Failed to preprocess image")
            /\ UNCHANGED <<prediction, result, calls>>
       ELSE /\ calls' = Append(calls, "classifier")
            /\ \E out \in KerasPredict(input_tensor) :
                 IF out.k = "raise"
                 THEN /\ Raise("Exception", "model.predict")
                      /\ UNCHANGED <<prediction, result>>
                 ELSE LET pred == predict_anemia(out.p)
                      IN  /\ prediction' = [p |-> out.p, label |-> pred.label,
                                            confidence |-> pred.confidence]
                          /\ \E pct \in Round2(pred.confidence) :
                               result' = BuildResult(image_path, pred, pct)
                          /\ pc' = "classified"
                          /\ error' = error

PropagateMut(res, heatmap_result, raised) ==
    IF raised THEN [pc |-> "failed", result |-> res]
    ELSE IF heatmap_result # None
    THEN [pc |-> "explained", result |-> res @@ ("heatmap_path" :> heatmap_result)]
    ELSE [pc |-> "explained", result |-> res]

AlwaysHeatmapMut(res, heatmap_result, raised) ==
    IF raised THEN [pc |-> "explained", result |-> res]
    ELSE [pc |-> "explained", result |-> res @@ ("heatmap_path" :> heatmap_result)]

\* pipeline.py 60-78: the try block around the Explainer and its except
\* clause.  raised: an exception left the try block's calls.
ExplainOutcome(res, heatmap_result, raised) ==
    IF raised THEN [pc |-> "explained", result |-> res]
    ELSE IF heatmap_result # None
    THEN [pc |-> "explained", result |-> res @@ ("heatmap_path" :> heatmap_result)]
    ELSE [pc |-> "explained", result |-> res]

\* pipeline.py 58-78: the optional call of generate_gradcam
Explain ==
    /\ pc = "classified"
    /\ explain.truthy
    /\ calls' = Append(calls, "explainer")
    /\ UNCHANGED <<image_path, explain, dc, crop_rgb, input_tensor, prediction, ret>>
    /\ \E raised \in BOOLEAN, env \in GradcamEnvFor(crop_rgb) :
         LET heatmap_path == ResultsPath("heatmap_", image_path)
             g   == generate_gradcam(input_tensor, crop_rgb, heatmap_path, env, files)
             out == ExplainOutcome(result, g.ret, raised \/ g.raised)
         IN  /\ gradcam' = IF raised THEN [k |-> "raised"] ELSE g
             /\ files' = IF raised THEN files ELSE g.files
             /\ written' = IF ~raised /\ g.wrote
                           THEN written \cup {heatmap_path} ELSE written
             /\ result' = out.result
             /\ pc' = out.pc
             /\ error' = IF out.pc = "failed"
                         THEN [type |-> "Exception", msg |-> "explainer"]
                         ELSE error

\* pipeline.py 80: return result
Return ==
    /\ \/ pc = "explained"
       \/ pc = "classified" /\ ~explain.truthy
    /\ pc' = "done"
    /\ UNCHANGED <<image_path, explain, dc, crop_rgb, input_tensor, prediction,
                   result, gradcam, files, written, calls, error, ret>>

Next == Detect \/ Normalize \/ Classify \/ Explain \/ Return

Spec == Init /\ [][Next]_vars

(***************************************************************************)
(* The stage functions called on their own, as main_cli.py and other       *)
(* callers may, with arguments that run_pipeline never passes.             *)
(***************************************************************************)
\* arrays handed over as input_tensor; values in units of 1/255
TensorArgs ==
    { None,
      [k |-> "ndarray", shape |-> TensorShape, dtype |-> "float32", vmin |-> 0, vmax |-> 255],
      [k |-> "ndarray", shape |-> TensorShape, dtype |-> "float32", vmin |-> 0, vmax |-> 65025],
      [k |-> "ndarray", shape |-> TensorShape, dtype |-> "float32", vmin |-> -255, vmax |-> 255],
      [k |-> "ndarray", shape |-> <<CropSide, CropSide, 3>>, dtype |-> "float32", vmin |-> 0, vmax |-> 255],
      [k |-> "ndarray", shape |-> <<1, CropSide, CropSide, 1>>, dtype |-> "float32", vmin |-> 0, vmax |-> 255] }

\* arrays handed over as img_rgb or original_rgb
ImageArgs ==
    { None,
      [k |-> "list", dtype |-> "object"],
      Region("box"),
      [k |-> "ndarray", shape |-> <<CropSide, CropSide, 3>>, dtype |-> "float32", vmax |-> 1, content |-> "box"],
      [k |-> "ndarray", shape |-> <<CropSide, CropSide, 3>>, dtype |-> "int32", vmax |-> 300, content |-> "box"],
      [k |-> "ndarray", shape |-> <<CropSide, CropSide>>, dtype |-> "uint8", vmax |-> 255, content |-> "box"],
      [k |-> "ndarray", shape |-> <<CropSide, CropSide, 4>>, dtype |-> "uint8", vmax |-> 255, content |-> "box"],
      [k |-> "ndarray", shape |-> <<5000, 5000, 3>>, dtype |-> "uint8", vmax |-> 255, content |-> "full"] }

\* arrays handed over as original_rgb
OverlayArgs == {img \in ImageArgs : img = None \/ img.dtype \in {"uint8", "object"}}

PathArgs == {None} \cup {ResultsPath("heatmap_", n) : n \in FileNames}

InitCalls ==
    /\ pc = "calls"
    /\ image_path = <<"eye", ".jpg">>
    /\ explain = ToBool([type |-> "bool", truthy |-> FALSE])
    /\ dc = None
    /\ crop_rgb = None
    /\ input_tensor = None
    /\ prediction = None
    /\ result = None
    /\ gradcam = NoCall
    /\ files = {}
    /\ written = {}
    /\ calls = <<>>
    /\ error = None
    /\ ret = NoCall

\* preprocess_image(img)
CallPreprocess ==
    /\ \E img \in ImageArgs, cv_ok \in BOOLEAN, rng \in PixelRanges :
         ret' = [fn |-> "preprocess_image", img_rgb |-> img,
                 value |-> preprocess_image(img, cv_ok, rng)]
    /\ UNCHANGED <<pc, image_path, explain, dc, crop_rgb, input_tensor, prediction,
                   result, gradcam, files, written, calls, error>>

\* predict_anemia(tensor): classifier.py 16-29
CallPredictAnemia ==
    /\ \E tensor \in TensorArgs : \E out \in KerasPredict(tensor) :
         ret' = [fn |-> "predict_anemia", input_tensor |-> tensor,
                 raised |-> (out.k = "raise"),
                 value |-> IF out.k = "raise" THEN None ELSE predict_anemia(out.p)]
    /\ UNCHANGED <<pc, image_path, explain, dc, crop_rgb, input_tensor, prediction,
                   result, gradcam, files, written, calls, error>>

\* generate_gradcam(model, tensor, img, output_path=path)
CallGenerateGradcam ==
    /\ \E tensor \in TensorArgs, img \in OverlayArgs, path \in PathArgs :
       \E env \in GradcamEnvFor(img) :
         LET g == generate_gradcam(tensor, img, path, env, files)
         IN  /\ ret' = [fn |-> "generate_gradcam", input_tensor |-> tensor,
                        output_path |-> path, raised |-> g.raised,
                        wrote |-> g.wrote, size |-> env.size, log |-> g.log,
                        value |-> g.ret]
             /\ files' = g.files
    /\ UNCHANGED <<pc, image_path, explain, dc, crop_rgb, input_tensor, prediction,
                   result, gradcam, written, calls, error>>

NextCalls == CallPreprocess \/ CallPredictAnemia \/ CallGenerateGradcam

SpecCalls == InitCalls /\ [][NextCalls]_vars

(***************************************************************************)
(* Two requests in flight at once, each in run_pipeline on its own input   *)
(* file, sharing the results directory.  Every variable but files and ret  *)
(* holds one value per request; a step is one stage of one request.        *)
(***************************************************************************)
Requests == {1, 2}

\* the input files: image_path.parent and image_path.name
PairPaths ==
    { [dir |-> "uploads", name |-> <<"eye", ".jpg">>],
      [dir |-> "inbox",   name |-> <<"eye", ".jpg">>],
      [dir |-> "uploads", name |-> <<"a", "\\", "b", ".PNG">>],
      [dir |-> "uploads", name |-> <<"a", "_", "b", ".PNG">>] }

\* the loaded images and the detections reported for them
PairDims == {<<640, 480>>}
PairDetectionLists ==
    { <<>>, <<[cls |-> "palpebral", conf |-> 90, xyxy |-> <<0, 0, 6, 3>>]>> }

\* the probabilities the classifier model returns
PairPValues == {49999, 82000}

InitPair ==
    /\ pc = [r \in Requests |-> "start"]
    /\ image_path \in {f \in [Requests -> PairPaths] : f[1] # f[2]}
    /\ explain \in [Requests -> {e \in ExplainArgs : e.type = "bool"}]
    /\ dc = [r \in Requests |-> None]
    /\ crop_rgb = [r \in Requests |-> None]
    /\ input_tensor = [r \in Requests |-> None]
    /\ prediction = [r \in Requests |-> None]
    /\ result = [r \in Requests |-> None]
    /\ gradcam = [r \in Requests |-> NoCall]
    /\ files = {}
    /\ written = [r \in Requests |-> {}]
    /\ calls = [r \in Requests |-> <<>>]
    /\ error = [r \in Requests |-> None]
    /\ ret = NoCall

\* raise type(msg) in request r
RaiseIn(r, type, msg) ==
    /\ pc' = [pc EXCEPT ![r] = "failed"]
    /\ error' = [error EXCEPT ![r] = [type |-> type, msg |-> msg]]

\* pipeline.py 17-30 with detector.py 30-142, in request r
PairDetect(r) ==
    /\ pc[r] = "start"
    /\ UNCHANGED <<image_path, input_tensor, prediction, result, gradcam, ret>>
    /\ \E fs \in FileStates :
        IF ~fs.exists
        THEN /\ RaiseIn(r, "ValueError", "Image file not found")
             /\ UNCHANGED <<explain, dc, crop_rgb, files, written, calls>>
        ELSE
          /\ explain' = [explain EXCEPT ![r] = ToBool(explain[r])]
          /\ calls' = [calls EXCEPT ![r] = Append(calls[r], "detector")]
          /\ IF ValidateImagePath(image_path[r].name, fs) # "ok"
             THEN /\ RaiseIn(r, "ValueError",
                             ValidateImagePath(image_path[r].name, fs))
                  /\ UNCHANGED <<dc, crop_rgb, files, written>>
             ELSE \E d \in PairDims, dets \in PairDetectionLists :
                     LET out == SelectAndCrop(image_path[r].name, d[1], d[2],
                                              dets, files)
                     IN  /\ dc' = [dc EXCEPT ![r] =
                                     [k |-> "frame", w0 |-> d[1], h0 |-> d[2],
                                      w |-> d[1], h |-> d[2], dets |-> dets,
                                      best_box |-> out.best_box,
                                      boxed_path |-> out.boxed_path]]
                         /\ crop_rgb' = [crop_rgb EXCEPT ![r] = out.crop_rgb]
                         /\ files' = out.files
                         /\ written' = [written EXCEPT ![r] = @ \cup out.wrote]
                         /\ pc' = [pc EXCEPT ![r] = "detected"]
                         /\ error' = error

\* pipeline.py 32-40, in request r
PairNormalize(r) ==
    /\ pc[r] = "detected"
    /\ dc' = [dc EXCEPT ![r] = None]
    /\ UNCHANGED <<image_path, explain, crop_rgb, prediction, result, gradcam,
                   files, written, ret>>
    /\ IF IsNone(crop_rgb[r])
       THEN /\ RaiseIn(r, "ValueError",
                       "Failed to extract image data for classification")
            /\ UNCHANGED <<input_tensor, calls>>
       ELSE /\ calls' = [calls EXCEPT ![r] = Append(calls[r], "normalizer")]
            /\ \E cv_ok \in BOOLEAN, rng \in PixelRanges :
                 input_tensor' = [input_tensor EXCEPT ![r] =
                                    preprocess_image(crop_rgb[r], cv_ok, rng)]
            /\ pc' = [pc EXCEPT ![r] = "normalized"]
            /\ error' = error

\* pipeline.py 42-55, in request r
PairClassify(r) ==
    /\ pc[r] = "normalized"
    /\ UNCHANGED <<image_path, explain, dc, crop_rgb, input_tensor, gradcam,
                   files, written, ret>>
    /\ IF IsNone(input_tensor[r])
       THEN /\ RaiseIn(r, "ValueError", "Failed to preprocess image")
            /\ UNCHANGED <<prediction, result, calls>>
       ELSE /\ calls' = [calls EXCEPT ![r] = Append(calls[r], "classifier")]
            /\ \E out \in {o \in KerasPredict(input_tensor[r]) :
                              o.k = "p" => o.p \in PairPValues} :
                 IF out.k = "raise"
                 THEN /\ RaiseIn(r, "Exception", "model.predict")
                      /\ UNCHANGED <<prediction, result>>
                 ELSE LET pred == predict_anemia(out.p)
                      IN  /\ prediction' = [prediction EXCEPT ![r] =
                                              [p |-> out.p, label |-> pred.label,
                                               confidence |-> pred.confidence]]
                          /\ \E pct \in Round2(pred.confidence) :
                               result' = [result EXCEPT ![r] =
                                   BuildResult(image_path[r].name, pred, pct)]
                          /\ pc' = [pc EXCEPT ![r] = "classified"]
                          /\ error' = error

\* pipeline.py 58-78, in request r
PairExplain(r) ==
    /\ pc[r] = "classified"
    /\ explain[r].truthy
    /\ calls' = [calls EXCEPT ![r] = Append(calls[r], "explainer")]
    /\ UNCHANGED <<image_path, explain, dc, crop_rgb, input_tensor, prediction, ret>>
    /\ \E raised \in BOOLEAN, env \in GradcamEnvFor(crop_rgb[r]) :
         LET heatmap_path == ResultsPath("heatmap_", image_path[r].name)
             g   == generate_gradcam(input_tensor[r], crop_rgb[r], heatmap_path,
                                     env, files)
             out == ExplainOutcome(result[r], g.ret, raised \/ g.raised)
         IN  /\ gradcam' = [gradcam EXCEPT ![r] =
                              IF raised THEN [k |-> "raised"] ELSE g]
             /\ files' = IF raised THEN files ELSE g.files
             /\ written' = [written EXCEPT ![r] =
                              IF ~raised /\ g.wrote
                              THEN @ \cup {heatmap_path} ELSE @]
             /\ result' = [result EXCEPT ![r] = out.result]
             /\ pc' = [pc EXCEPT ![r] = out.pc]
             /\ error' = error

\* pipeline.py 80, in request r
PairReturn(r) ==
    /\ \/ pc[r] = "explained"
       \/ pc[r] = "classified" /\ ~explain[r].truthy
    /\ pc' = [pc EXCEPT ![r] = "done"]
    /\ UNCHANGED <<image_path, explain, dc, crop_rgb, input_tensor, prediction,
                   result, gradcam, files, written, calls, error, ret>>

NextPair ==
    \E r \in Requests :
        \/ PairDetect(r)
        \/ PairNormalize(r)
        \/ PairClassify(r)
        \/ PairExplain(r)
        \/ PairReturn(r)

SpecPair == InitPair /\ [][NextPair]_vars

(***************************************************************************)
(* Properties.                                                             *)
(***************************************************************************)
Stages == <<"detector", "normalizer", "classifier", "explainer">>

IsPrefix(a, b) == Len(a) <= Len(b) /\ \A i \in DOMAIN a : a[i] = b[i]

HasHeatmap(res) == "heatmap_path" \in DOMAIN res

PrimaryFields == {"label", "confidence", "boxed_image_path", "note"}

C1_Step ==
    pc \in {"classified", "explained"} =>
    /\ pc' \in {"explained", "done"}
    /\ error' = None
    /\ PrimaryFields \subseteq DOMAIN result'
    /\ \A f \in PrimaryFields : result'[f] = result[f]

\* C1: once the classifier has returned, run_pipeline can always go on, and
\* every step it takes from there leads to the return of the result record
\* with its primary fields, never to the failed state, whether the Explainer
\* returns a path, returns None or raises.
C1_ExplainerFailureAbsorbed ==
    /\ [](pc \in {"classified", "explained"} => ENABLED (Explain \/ Return))
    /\ [][C1_Step]_vars

C1_Witness ==
    /\ pc = "done"
    /\ gradcam.k = "raised"
    /\ result.label = "ANEMIC"

C2_NullReturned ==
    \/ pc = "detected" /\ crop_rgb = None
    \/ pc = "normalized" /\ input_tensor = None

C2_Abort ==
    C2_NullReturned =>
        pc' = "failed" /\ error' # None /\ result' = None /\ calls' = calls

\* C2: the stages are invoked in the order Detector, Normalizer, Classifier,
\* Explainer, each at most once and the Explainer only if the coerced explain
\* flag is true; a stage is invoked only after every earlier stage returned a
\* value other than None; and a None from the Detector or the Normalizer is
\* followed by the failure of the request, with no result record and no
\* further stage.
C2_StageOrder ==
    /\ [](/\ IsPrefix(calls, Stages)
          /\ (Len(calls) >= 2 => crop_rgb # None)
          /\ (Len(calls) >= 3 => input_tensor # None)
          /\ (Len(calls) >= 4 => prediction # None /\ explain.type = "bool"
                                 /\ explain.truthy)
          /\ (pc = "failed" => result = None)
          /\ (pc = "done" => Len(calls) = IF explain.truthy THEN 4 ELSE 3))
    /\ [][C2_Abort]_vars

C2_Witness ==
    /\ pc = "failed"
    /\ calls = <<"detector", "normalizer">>
    /\ input_tensor = None

\* C3: for a model probability prob in [0, 1], predict_anemia returns
\* NON-ANEMIC with confidence 1 - prob when prob < 0.5 and ANEMIC with
\* confidence prob otherwise; the confidence lies in [0.5, 1.0].
C3_DecisionRule ==
    prediction # None =>
        /\ prediction.p \in 0..One
        /\ (prediction.p < Half =>
                /\ prediction.label = "NON-ANEMIC"
                /\ prediction.confidence = One - prediction.p)
        /\ (prediction.p >= Half =>
                /\ prediction.label = "ANEMIC"
                /\ prediction.confidence = prediction.p)
        /\ (prediction.p = 0 => prediction.confidence = One)
        /\ (prediction.p = One => prediction.confidence = One)
        /\ prediction.confidence >= Half
        /\ prediction.confidence <= One

C3_Witness ==
    /\ prediction # None
    /\ prediction.p = Half
    /\ prediction.label = "ANEMIC"
    /\ prediction.confidence = Half

\* indices of the detections whose class is in the accepted set
Accepted(dets) == {i \in DOMAIN dets : dets[i].cls \in TARGET_CLASSES}

IntArea(dets, i) == Area(IntBox(dets[i]))

\* best_box is the box of the first accepted detection of the largest area
SelectsFirstLargest(dets, best_box) ==
    /\ best_box # None
    /\ \E i \in Accepted(dets) :
        /\ best_box.xyxy = IntBox(dets[i])
        /\ \A j \in Accepted(dets) : IntArea(dets, j) <= IntArea(dets, i)
        /\ \A j \in Accepted(dets) : j < i => IntArea(dets, j) < IntArea(dets, i)

\* C4, as claimed: whenever the model reports a detection of an accepted
\* class, detect_and_crop selects the first accepted detection of the largest
\* area.
C4_AnyAcceptedIsSelected ==
    dc # None /\ Accepted(dc.dets) # {} => SelectsFirstLargest(dc.dets, dc.best_box)

\* C4, amended: whenever the model reports an accepted-class detection whose
\* box, with its coordinates truncated to integers, has a positive area,
\* detect_and_crop selects the first accepted detection of the largest area,
\* whatever the scores and the order; otherwise it selects none.  Detections
\* of other classes are never selected.
C4_LargestPositiveAreaSelected ==
    dc # None =>
        IF \E i \in Accepted(dc.dets) : IntArea(dc.dets, i) > 0
        THEN SelectsFirstLargest(dc.dets, dc.best_box)
        ELSE dc.best_box = None

C4_Witness ==
    /\ dc # None
    /\ Len(dc.dets) = 2
    /\ dc.dets[1].cls = "palpebral" /\ dc.dets[2].cls = "palpebral"
    /\ dc.dets[1].conf < dc.dets[2].conf
    /\ IntBox(dc.dets[1]) # IntBox(dc.dets[2])
    /\ IntArea(dc.dets, 1) = IntArea(dc.dets, 2)
    /\ dc.best_box # None
    /\ dc.best_box.xyxy = IntBox(dc.dets[1])

BoxedFile(fsys, name) ==
    {f \in fsys : f.path = ResultsPath("boxed_", ReplaceSeparators(name))}

\* C5: when no detection qualifies, detect_and_crop returns the full image
\* as a 224x224x3 region, the annotated file holds the unmarked image, and
\* the result of the request carries a "no region found" note.
C5_FallbackNoted ==
    /\ dc # None /\ dc.best_box = None =>
        /\ crop_rgb = Region("full")
        /\ \E f \in BoxedFile(files, image_path) : f.content = "unmarked"
    /\ pc = "done" /\ crop_rgb.content = "full" => result.note # None

\* C6: with explainability requested, the step from the classified result to
\* the returned one adds the heatmap field exactly when generate_gradcam
\* returned a path, and then with that path, and changes no other field.
C6_Step ==
    pc \in {"classified", "explained"} /\ explain.truthy /\ pc' # pc =>
        /\ HasHeatmap(result') <=> (gradcam'.k = "call" /\ gradcam'.ret # None)
        /\ HasHeatmap(result') => result'.heatmap_path = gradcam'.ret
        /\ \A f \in PrimaryFields : result'[f] = result[f]
        /\ DOMAIN result' \subseteq PrimaryFields \cup {"heatmap_path"}

C6_HeatmapFieldIffPath == [][C6_Step]_vars

C6_Witness ==
    /\ pc = "done"
    /\ gradcam.k = "call"
    /\ gradcam.log = "heatmap collapsed"
    /\ ~HasHeatmap(result)
    /\ result.label = "ANEMIC" /\ result.confidence = 8200

Ended == pc \in {"done", "failed"}

BoxedPath == ResultsPath("boxed_", ReplaceSeparators(image_path))
HeatmapPath == ResultsPath("heatmap_", image_path)

\* detect_and_crop has returned to run_pipeline
DetectorReturned ==
    \/ pc = "detected"
    \/ Len(calls) >= 2
    \/ pc = "failed" /\ error.msg = "Failed to extract image data for classification"

\* C7, as claimed: a request writes no derived image or two.
C7_ZeroOrTwoFiles == Ended => Cardinality(written) \in {0, 2}

\* C7, amended: a request writes zero, one or two derived images: the
\* annotated image whenever the Detector returns and not otherwise, and the
\* heatmap image only if explainability was requested and the Explainer
\* returned its path.
C7_ZeroOneOrTwoFiles ==
    /\ written \subseteq {BoxedPath, HeatmapPath}
    /\ BoxedPath \in written <=> DetectorReturned
    /\ HeatmapPath \in written =>
        /\ explain.truthy
        /\ gradcam.k = "call" /\ gradcam.ret = HeatmapPath
        /\ HasHeatmap(result)

C7_Witness ==
    /\ pc = "done"
    /\ ~explain.truthy
    /\ written = {BoxedPath}

GradcamCalled == ret # NoCall /\ ret.fn = "generate_gradcam"

\* C8: generate_gradcam never raises; a returned path is the output path,
\* names an existing file and that file has at most 50MB; when no file is at
\* the output path after the write, or the file written has more than 50MB,
\* it returns None, and the oversized file is gone when it returns.
C8_GradcamAbsorbsFailures ==
    GradcamCalled =>
        /\ ~ret.raised
        /\ ret.value # None =>
            /\ ret.value = ret.output_path
            /\ Exists(files, ret.value)
            /\ SizeOf(files, ret.value) <= MAX_HEATMAP_SIZE
        /\ ret.log = "Failed to write heatmap file" =>
            ret.value = None /\ ~Exists(files, ret.output_path)
        /\ ret.wrote /\ ret.size > MAX_HEATMAP_SIZE =>
            ret.value = None /\ ~Exists(files, ret.output_path)

C8_Witness ==
    /\ GradcamCalled
    /\ ret.wrote
    /\ ret.size = MAX_HEATMAP_SIZE + 1
    /\ ret.value = None
    /\ ~Exists(files, ret.output_path)

\* an InputTensor: shape (1, 224, 224, 3), values in [0.0, 1.0]
TensorValid(t) ==
    /\ t # None
    /\ t.k = "ndarray"
    /\ t.shape = TensorShape
    /\ t.vmin >= 0 /\ t.vmax <= 255

\* C9: a tensor that is not of shape (1, 224, 224, 3) with values in
\* [0.0, 1.0] is not used by the Classifier or the Explainer: the call fails.
C9_InvalidTensorFails ==
    /\ ret # NoCall
    /\ ret.fn \in {"predict_anemia", "generate_gradcam"}
    /\ ~TensorValid(ret.input_tensor)
    => ret.raised /\ ret.value = None

\* C10: the image the localisation model is given is at most 2048 on either
\* side; an image within 2048 x 2048 is given as loaded; a larger one is
\* given with each side within one pixel of the side scaled by
\* 2048 / max(width, height).
C10_DownscaledBeforeInference ==
    dc # None =>
        /\ Max(dc.w, dc.h) <= max_dim
        /\ dc.w >= 1 /\ dc.h >= 1
        /\ (dc.w0 <= max_dim /\ dc.h0 <= max_dim => dc.w = dc.w0 /\ dc.h = dc.h0)
        /\ (dc.w0 > max_dim \/ dc.h0 > max_dim =>
              LET m == Max(dc.w0, dc.h0)
              IN  /\ dc.w * m <= dc.w0 * max_dim
                  /\ dc.w0 * max_dim <= (dc.w + 1) * m
                  /\ dc.h * m <= dc.h0 * max_dim
                  /\ dc.h0 * max_dim <= (dc.h + 1) * m)

C10_Witness ==
    /\ dc # None
    /\ dc.w0 = 6000 /\ dc.h0 = 4000
    /\ dc.w = 2048 /\ dc.h = 1365

\* C11: whenever detect_and_crop selected a box, the box clamped to the image
\* of width w and height h has 0 <= x1 < x2 <= w and 0 <= y1 < y2 <= h, and
\* the Detector returns a 224 x 224 x 3 region, not None.
C11_ClampedBoxInsideImage ==
    dc # None /\ dc.best_box # None =>
        LET b == Clamp(dc.best_box.xyxy, dc.w, dc.h)
        IN  /\ 0 <= b[1] /\ b[1] < b[3] /\ b[3] <= dc.w
            /\ 0 <= b[2] /\ b[2] < b[4] /\ b[4] <= dc.h
            /\ crop_rgb # None
            /\ crop_rgb.shape = <<CropSide, CropSide, 3>>

\* the derived files the result of request r refers to
Reported(r) ==
    IF result[r] = None THEN {}
    ELSE {result[r].boxed_image_path} \cup
         (IF HasHeatmap(result[r]) THEN {result[r].heatmap_path} ELSE {})

\* C12: of two requests in flight on different input files, neither writes a
\* derived file that the other writes or reports, and the files the result
\* of a request refers to were written by that request.
C12_DerivedFilesIsolated ==
    \A r1 \in Requests :
        /\ \A r2 \in Requests \ {r1} :
             written[r1] \cap (written[r2] \cup Reported(r2)) = {}
        /\ pc[r1] = "done" => Reported(r1) \subseteq written[r1]

\* C13: when run_pipeline returns a result, its boxed_image_path is the path
\* to which detect_and_crop wrote the annotated image during the request.
C13_ResultNamesWrittenImage ==
    pc = "done" =>
        /\ result.boxed_image_path \in written
        /\ Exists(files, result.boxed_image_path)

====
